---- MODULE Spec2Model ----
(***************************************************************************)
(* Model of docs/examples/language_model/language_model.ipynb: the        *)
(* truncated-BPTT training loop `train`, the evaluation loop `evaluate`,  *)
(* and the cache-model loop `evaluate_cache` with its `get_batch`.        *)
(*                                                                         *)
(* The wrapped library (tensors, autograd, the LSTM, the optimizer) is    *)
(* modelled by what the notebook observes of it: a tensor carries the set *)
(* of forward passes its autograd graph reaches, a loss is a number the   *)
(* library returns (any value of a small set), a learning rate is an exact*)
(* rational (multiplying a float by 0.25 is exact).                       *)
(***************************************************************************)
EXTENDS Integers, Sequences, FiniteSets, TLC

\* ------------------------------------------------------------------ bounds
MaxEpochs == 2
MaxBatches == 4
MaxLogInterval == 2
MaxDevices == 2
MaxCalls == 2
MaxEvalBatches == 2
MaxBatchElems == 2
MaxLen == 7
MaxBptt == 3

\* an LSTM's state is the pair [h, c]
StateTensors == 2

\* --------------------------------------------------- numbers (Python floats)
\* A float is an exact rational num/den; den = 0 is float("Inf").
Num(n) == [num |-> n, den |-> 1]
Inf == [num |-> 1, den |-> 0]
IsInf(a) == a.den = 0
Add(a, b) ==
    IF IsInf(a) \/ IsInf(b) THEN Inf
    ELSE [num |-> a.num * b.den + b.num * a.den, den |-> a.den * b.den]
\* a / n for a positive integer n
DivInt(a, n) == IF IsInf(a) THEN Inf ELSE [num |-> a.num, den |-> a.den * n]
\* a * 0.25
MulQuarter(a) == IF IsInf(a) THEN Inf ELSE [num |-> a.num, den |-> a.den * 4]
\* a < b
Less(a, b) == a.num * b.den < b.num * a.den
\* a == b as numbers
Same(a, b) == a.num * b.den = b.num * a.den

\* ------------------------------------------------------- program constants
lr_global == 20
val_batch_size == 1
LrArgs == {lr_global, 8}

\* val_data is empty, or has one or two batches; test_data is empty or not
ValBatchCounts == {0, 1, 2}
TestBatchCounts == {0, 1}

\* Losses the library can return for one device's share of a training batch
\* (mx.nd.sum(l).asscalar()), and for one evaluation batch (the vector L).
Losses == {1, 2}
EvalBatchLs == {<<Num(1), Num(1)>>, <<Num(1), Num(2)>>, <<Inf, Num(1)>>}

VARIABLES
    pc,           \* position of the notebook / of train
    calls,        \* number of calls to train so far
    log_interval, \* global log_interval
    ndev,         \* len(context)
    trainer_lr,   \* learning rate of the global trainer
    epochs,       \* train argument
    lr,           \* train argument and local
    ntrain,       \* len(train_data)
    nval,         \* number of batches of val_data
    ntest,        \* number of batches of test_data
    epoch,        \* loop variable of train
    i,            \* batch index of train
    total_L,      \* train's loss accumulator
    best_val,     \* train's best validation loss
    val_L,        \* train's last validation loss
    hiddens,      \* train's list of per-device hidden states
    Ls,           \* per-device scalar losses of the current batch
    Lgraph,       \* forward passes the recorded graph of L reaches
    grad,         \* the parameters' gradient buffers
    ops,          \* library calls made for the current batch, in order
    stepped,      \* the gradient the last trainer.step consumed
    nsteps,       \* trainer.step calls in this call of train
    step_lr,      \* learning rate the trainer used at its last step
    printed,      \* progress lines printed in this epoch
    cur_L,        \* train's local cur_L, the loss of the last progress line
    window,       \* batch indices whose loss is summed in total_L
    vals,         \* validation losses returned in this call, one per epoch
    epoch_ops,    \* end-of-epoch calls of the current epoch, in order
    saved,        \* epochs whose checkpoint was saved in this call
    lr_arg        \* the lr argument this call of train was given

VARIABLES
    ev_pc,        \* position of a top-level call of evaluate
    ev_data,      \* the loss vector of each batch of its data_source
    ev_b,         \* number of batches its loop has consumed
    ev_st,        \* its locals total_L, ntotal and hidden
    ev_visited,   \* the batches its loop body ran on, in order
    ev_result     \* what it returned or raised

VARIABLES
    bptt,         \* the global bptt of the cache-model cells
    ec_pc,        \* position of a call of evaluate_cache
    ec_n,         \* len(data_source)
    ec_i,         \* its loop variable i
    ec_total_L,   \* its accumulator
    ec_scored,    \* target positions passed to the model, in order
    ec_printed,   \* the i of each "Batch i, ppl" line
    ec_result     \* the value it returned, with the divisor used

VARIABLES
    gb_args,      \* arguments of the last call of get_batch, and bptt then
    gb_ret        \* what it returned

evalVars == <<ev_pc, ev_data, ev_b, ev_st, ev_visited, ev_result>>
cacheVars == <<bptt, ec_pc, ec_n, ec_i, ec_total_L, ec_scored, ec_printed, ec_result>>
gbVars == <<gb_args, gb_ret>>

trainVars == <<pc, calls, log_interval, ndev, trainer_lr, epochs, lr, ntrain, nval,
               ntest, epoch, i, total_L, best_val, val_L, hiddens, Ls, Lgraph, grad,
               ops, stepped, nsteps, step_lr, printed, cur_L, window, vals, epoch_ops, saved,
               lr_arg>>

\* ------------------------------------------------------------ hidden states
\* A hidden state is a Python list (leaf = FALSE) of lists or of tensors
\* (leaf = TRUE). A tensor carries where it came from and the set of forward
\* passes <<epoch, batch, device>> its autograd history reaches.
Tensor(src, graph) == [leaf |-> TRUE, src |-> src, graph |-> graph]
List(items) == [leaf |-> FALSE, items |-> items]

RECURSIVE Graph(_)
Graph(h) ==
    IF h.leaf THEN h.graph
    ELSE UNION {Graph(h.items[k]) : k \in DOMAIN h.items}

\* (mutant) detach that leaves the tensor attached to its history
TensorDetachKeepsGraph(t) == t

\* hidden.detach() on a tensor: the same values, cut from the graph
TensorDetach(t) == [t EXCEPT !.graph = {}]

RECURSIVE detach(_)
detach(hidden) ==
    IF hidden.leaf THEN TensorDetach(hidden)
    ELSE List([k \in DOMAIN hidden.items |-> detach(hidden.items[k])])

\* model.begin_state(..., func=mx.nd.zeros, ctx=ctx): fresh zero tensors
begin_state(who, e, j) ==
    List([k \in 1..StateTensors |-> Tensor(<<who, "zeros", e, 0, j>>, {})])

\* output, h = model(X, h) under autograd.record(): the new state (and the
\* output) reach this forward pass and whatever the state fed in reaches.
\* Outside autograd.record() nothing is recorded.
ModelForward(who, h, e, b, j, recording) ==
    List([k \in 1..StateTensors |->
            Tensor(<<who, "out", e, b, j>>,
                   IF recording THEN Graph(h) \cup {<<e, b, j>>} ELSE {})])

\* ----------------------------------------------------------------- evaluate
\* mx.nd.sum(L).asscalar()
RECURSIVE NdSum(_)
NdSum(L) == IF L = <<>> THEN Num(0) ELSE Add(Head(L), NdSum(Tail(L)))

\* (mutant) every batch counted as one loss element
SizeOne(L) == 1

\* L.size
Size(L) == Len(L)

\* evaluate's locals before the loop
EvalBegin == [total_L |-> Num(0), ntotal |-> 0,
              hidden |-> begin_state("evaluate", 0, 1)]

\* one iteration of evaluate's loop, on batch number b with loss vector L
EvalBody(st, L, b) ==
    [total_L |-> Add(st.total_L, NdSum(L)),
     ntotal |-> st.ntotal + Size(L),
     hidden |-> detach(ModelForward("evaluate", st.hidden, 0, b, 1, FALSE))]

RECURSIVE EvalLoop(_, _, _)
EvalLoop(st, batches, b) ==
    IF b > Len(batches) THEN st
    ELSE EvalLoop(EvalBody(st, batches[b], b), batches, b + 1)

\* (mutant) an empty source scored as 0.0 instead of dividing by zero
EvalReturnZeroGuard(st) ==
    [raised |-> FALSE,
     value |-> IF st.ntotal = 0 THEN Num(0) ELSE DivInt(st.total_L, st.ntotal)]

\* return total_L / ntotal: a float, or ZeroDivisionError when ntotal = 0
EvalReturn(st) ==
    IF st.ntotal = 0 THEN [raised |-> TRUE, value |-> Num(0)]
    ELSE [raised |-> FALSE, value |-> DivInt(st.total_L, st.ntotal)]

\* evaluate(model, data_source, batch_size, ctx), where batches[b] is the loss
\* vector the library computes for the b-th batch of data_source
evaluate(batches) == EvalReturn(EvalLoop(EvalBegin, batches, 1))

\* The loss vectors a data source of n batches can produce
EvalOutcomes(n) == [1..n -> EvalBatchLs]

\* -------------------------------------------------------------------- train
NoGrad == [of |-> {}, clipped |-> FALSE]

\* what a call of train leaves of its locals once it is over (or before it)
TrainLocalsIdle ==
    /\ epochs = 0 /\ lr = Num(0) /\ lr_arg = Num(0)
    /\ ntrain = 0 /\ nval = 0 /\ ntest = 0
    /\ epoch = 0 /\ i = 0
    /\ total_L = Num(0) /\ best_val = Inf /\ val_L = Num(0)
    /\ hiddens = List(<<>>) /\ Ls = <<>> /\ Lgraph = {}
    /\ ops = <<>> /\ nsteps = 0
    /\ printed = <<>> /\ cur_L = Num(0) /\ window = {} /\ vals = <<>> /\ epoch_ops = <<>>
    /\ saved = {}

\* the state after the cells that build context, log_interval and the trainer
TrainInit ==
    /\ pc = "idle"
    /\ calls = 0
    /\ log_interval \in 1..MaxLogInterval
    /\ ndev \in 1..MaxDevices
    /\ trainer_lr = Num(lr_global)
    /\ grad = NoGrad /\ stepped = NoGrad /\ step_lr = Num(0)
    /\ TrainLocalsIdle

\* train(model, train_data, val_data, test_data, epochs, lr) is called
TrainCall(limit) ==
    /\ pc = "idle"
    /\ calls < limit
    /\ calls' = calls + 1
    /\ \E e \in 1..MaxEpochs, l \in LrArgs, nt \in 0..MaxBatches,
          nv \in ValBatchCounts, nte \in TestBatchCounts :
          /\ epochs' = e
          /\ lr' = Num(l)
          /\ lr_arg' = Num(l)
          /\ ntrain' = nt
          /\ nval' = nv
          /\ ntest' = nte
    /\ best_val' = Inf
    /\ epoch' = 0
    /\ pc' = "epoch"
    /\ UNCHANGED <<log_interval, ndev, trainer_lr, i, total_L, val_L, hiddens, Ls,
                   Lgraph, grad, ops, stepped, nsteps, step_lr, printed, cur_L, window,
                   vals, epoch_ops, saved>>

\* (mutant) the hidden states are zeroed in the first epoch only
EpochBeginKeepsState ==
    /\ pc = "epoch"
    /\ epoch < epochs
    /\ total_L' = Num(0)
    /\ window' = {}
    /\ hiddens' = IF epoch = 0
                     THEN List([j \in 1..ndev |-> begin_state("train", epoch, j)])
                     ELSE hiddens
    /\ i' = 0
    /\ printed' = <<>>
    /\ epoch_ops' = <<>>
    /\ ops' = <<>>
    /\ pc' = "batch"
    /\ UNCHANGED <<calls, log_interval, ndev, trainer_lr, epochs, lr, ntrain, nval,
                   ntest, epoch, best_val, val_L, Ls, Lgraph, grad, stepped, nsteps,
                   step_lr, cur_L, vals, saved, lr_arg>>

\* for epoch in range(epochs): the head of an epoch
EpochBegin ==
    /\ pc = "epoch"
    /\ epoch < epochs
    /\ total_L' = Num(0)
    /\ window' = {}
    /\ hiddens' = List([j \in 1..ndev |-> begin_state("train", epoch, j)])
    /\ i' = 0
    /\ printed' = <<>>
    /\ epoch_ops' = <<>>
    /\ ops' = <<>>
    /\ pc' = "batch"
    /\ UNCHANGED <<calls, log_interval, ndev, trainer_lr, epochs, lr, ntrain, nval,
                   ntest, epoch, best_val, val_L, Ls, Lgraph, grad, stepped, nsteps,
                   step_lr, cur_L, vals, saved, lr_arg>>

\* hiddens = detach(hiddens), first statement of the batch loop's body
BatchDetach ==
    /\ pc = "batch"
    /\ i < ntrain
    /\ hiddens' = detach(hiddens)
    /\ ops' = <<"detach">>
    /\ pc' = "record"
    /\ UNCHANGED <<calls, log_interval, ndev, trainer_lr, epochs, lr, ntrain, nval,
                   ntest, epoch, i, total_L, best_val, val_L, Ls, Lgraph, grad,
                   stepped, nsteps, step_lr, printed, cur_L, window, vals, epoch_ops,
                   saved, lr_arg>>

\* with autograd.record(): the forward pass and the loss on every device
BatchForward ==
    /\ pc = "record"
    /\ \E ls \in [1..ndev -> Losses] : Ls' = ls
    /\ hiddens' = List([j \in 1..ndev |->
                          ModelForward("train", hiddens.items[j], epoch, i, j, TRUE)])
    /\ Lgraph' = UNION {Graph(hiddens'.items[j]) : j \in 1..ndev}
    /\ ops' = Append(ops, "forward")
    /\ pc' = "backward"
    /\ UNCHANGED <<calls, log_interval, ndev, trainer_lr, epochs, lr, ntrain, nval,
                   ntest, epoch, i, total_L, best_val, val_L, grad, stepped, nsteps,
                   step_lr, printed, cur_L, window, vals, epoch_ops, saved, lr_arg>>

\* L.backward(): the gradients of the recorded graph overwrite the buffers
BatchBackward ==
    /\ pc = "backward"
    /\ grad' = [of |-> Lgraph, clipped |-> FALSE]
    /\ ops' = Append(ops, "backward")
    /\ pc' = "clip"
    /\ UNCHANGED <<calls, log_interval, ndev, trainer_lr, epochs, lr, ntrain, nval,
                   ntest, epoch, i, total_L, best_val, val_L, hiddens, Ls, Lgraph,
                   stepped, nsteps, step_lr, printed, cur_L, window, vals, epoch_ops,
                   saved, lr_arg>>

\* (mutant) the clipping call is missing from the loop body
BatchClipMissing ==
    /\ pc = "clip"
    /\ pc' = "step"
    /\ UNCHANGED <<calls, log_interval, ndev, trainer_lr, epochs, lr, ntrain, nval,
                   ntest, epoch, i, total_L, best_val, val_L, hiddens, Ls, Lgraph,
                   grad, ops, stepped, nsteps, step_lr, printed, cur_L, window, vals,
                   epoch_ops, saved, lr_arg>>

\* gluon.utils.clip_global_norm(grads, grad_clip)
BatchClip ==
    /\ pc = "clip"
    /\ grad' = [grad EXCEPT !.clipped = TRUE]
    /\ ops' = Append(ops, "clip_global_norm")
    /\ pc' = "step"
    /\ UNCHANGED <<calls, log_interval, ndev, trainer_lr, epochs, lr, ntrain, nval,
                   ntest, epoch, i, total_L, best_val, val_L, hiddens, Ls, Lgraph,
                   stepped, nsteps, step_lr, printed, cur_L, window, vals, epoch_ops,
                   saved, lr_arg>>

\* trainer.step(1)
BatchStep ==
    /\ pc = "step"
    /\ stepped' = grad
    /\ step_lr' = trainer_lr
    /\ nsteps' = nsteps + 1
    /\ ops' = Append(ops, "step")
    /\ pc' = "log"
    /\ UNCHANGED <<calls, log_interval, ndev, trainer_lr, epochs, lr, ntrain, nval,
                   ntest, epoch, i, total_L, best_val, val_L, hiddens, Ls, Lgraph,
                   grad, printed, cur_L, window, vals, epoch_ops, saved, lr_arg>>

\* sum([mx.nd.sum(l).asscalar() for l in Ls])
RECURSIVE SumLs(_, _)
SumLs(ls, n) == IF n = 0 THEN 0 ELSE ls[n] + SumLs(ls, n - 1)

\* (mutant) the test without "and i > 0"
LogPointAtZero(b, interval) == b % interval = 0

\* if i % log_interval == 0 and i > 0
LogPoint(b, interval) == b % interval = 0 /\ b > 0

\* total_L += ...; the progress line; the next batch
BatchLog ==
    /\ pc = "log"
    /\ LET t == Add(total_L, Num(SumLs(Ls, Len(Ls))))
           w == window \cup {i}
       IN  IF LogPoint(i, log_interval)
           THEN /\ printed' = Append(printed,
                                     [epoch |-> epoch, batch |-> i, window |-> w])
                /\ cur_L' = DivInt(t, log_interval)
                /\ total_L' = Num(0)
                /\ window' = {}
           ELSE /\ total_L' = t
                /\ window' = w
                /\ UNCHANGED <<printed, cur_L>>
    /\ i' = i + 1
    /\ Ls' = <<>>      \* rebound by the next batch before it is read
    /\ pc' = "batch"
    /\ UNCHANGED <<calls, log_interval, ndev, trainer_lr, epochs, lr, ntrain, nval,
                   ntest, epoch, best_val, val_L, hiddens, Lgraph, grad, ops,
                   stepped, nsteps, step_lr, vals, epoch_ops, saved, lr_arg>>

\* (mutant) the batch loop left one batch early
BatchesDoneEarly ==
    /\ pc = "batch"
    /\ i >= ntrain - 1
    /\ pc' = "validate"
    /\ UNCHANGED <<calls, log_interval, ndev, trainer_lr, epochs, lr, ntrain, nval,
                   ntest, epoch, i, total_L, best_val, val_L, hiddens, Ls, Lgraph,
                   grad, ops, stepped, nsteps, step_lr, printed, cur_L, window, vals,
                   epoch_ops, saved, lr_arg>>

\* the batch loop is exhausted: mx.nd.waitall() and the throughput line
BatchesDone ==
    /\ pc = "batch"
    /\ i >= ntrain
    /\ pc' = "validate"
    /\ UNCHANGED <<calls, log_interval, ndev, trainer_lr, epochs, lr, ntrain, nval,
                   ntest, epoch, i, total_L, best_val, val_L, hiddens, Ls, Lgraph,
                   grad, ops, stepped, nsteps, step_lr, printed, cur_L, window, vals,
                   epoch_ops, saved, lr_arg>>

\* val_L = evaluate(model, val_data, batch_size, context[0])
EpochValidate ==
    /\ pc = "validate"
    /\ epoch_ops' = Append(epoch_ops, "evaluate_val")
    /\ \E out \in EvalOutcomes(nval) :
          LET r == evaluate(out)
          IN  IF r.raised
              THEN /\ pc' = "error"
                   /\ UNCHANGED <<val_L, vals>>
              ELSE /\ val_L' = r.value
                   /\ vals' = Append(vals, r.value)
                   /\ pc' = "compare"
    /\ UNCHANGED <<calls, log_interval, ndev, trainer_lr, epochs, lr, ntrain, nval,
                   ntest, epoch, i, total_L, best_val, hiddens, Ls, Lgraph, grad,
                   ops, stepped, nsteps, step_lr, printed, cur_L, window, saved, lr_arg>>

\* (mutants) the comparison reversed, and the comparison made non-strict
ImprovedReversed(v, best) == Less(best, v)
ImprovedOrEqual(v, best) == ~Less(best, v)

\* if val_L < best_val
Improved(v, best) == Less(v, best)

\* (mutant) the learning rate halved instead of quartered
DecayHalf(l) == IF IsInf(l) THEN Inf ELSE [num |-> l.num, den |-> l.den * 2]

\* lr = lr*0.25
Decay(l) == MulQuarter(l)

\* the end-of-epoch bookkeeping: checkpoint on improvement, else decay
EpochBookkeeping ==
    /\ pc = "compare"
    /\ IF Improved(val_L, best_val)
       THEN /\ best_val' = val_L
            /\ \E out \in EvalOutcomes(ntest) :
                  IF evaluate(out).raised
                  THEN /\ epoch_ops' = Append(epoch_ops, "evaluate_test")
                       /\ pc' = "error"
                       /\ UNCHANGED <<saved, epoch>>
                  ELSE /\ epoch_ops' = epoch_ops \o <<"evaluate_test", "save_params">>
                       /\ saved' = saved \cup {epoch}
                       /\ epoch' = epoch + 1
                       /\ pc' = "epoch"
            /\ UNCHANGED <<lr, trainer_lr>>
       ELSE /\ lr' = Decay(lr)
            /\ trainer_lr' = lr'
            /\ epoch_ops' = Append(epoch_ops, "set_learning_rate")
            /\ epoch' = epoch + 1
            /\ pc' = "epoch"
            /\ UNCHANGED <<best_val, saved>>
    /\ UNCHANGED <<calls, log_interval, ndev, epochs, ntrain, nval, ntest, i,
                   total_L, val_L, hiddens, Ls, Lgraph, grad, ops, stepped, nsteps,
                   step_lr, printed, cur_L, window, vals, lr_arg>>

\* range(epochs) is exhausted: the total-throughput line, and train returns
TrainReturn ==
    /\ pc = "epoch"
    /\ epoch >= epochs
    /\ pc' = "idle"
    /\ epochs' = 0 /\ lr' = Num(0) /\ lr_arg' = Num(0)
    /\ ntrain' = 0 /\ nval' = 0 /\ ntest' = 0
    /\ epoch' = 0 /\ i' = 0
    /\ total_L' = Num(0) /\ best_val' = Inf /\ val_L' = Num(0)
    /\ hiddens' = List(<<>>) /\ Ls' = <<>> /\ Lgraph' = {}
    /\ ops' = <<>> /\ nsteps' = 0
    /\ printed' = <<>> /\ cur_L' = Num(0) /\ window' = {} /\ vals' = <<>> /\ epoch_ops' = <<>>
    /\ saved' = {}
    /\ grad' = NoGrad /\ stepped' = NoGrad /\ step_lr' = Num(0)
    /\ UNCHANGED <<calls, log_interval, ndev, trainer_lr>>

\* the notebook before any call of train
TrainIdle ==
    /\ pc = "idle"
    /\ calls = 0
    /\ log_interval = 1
    /\ ndev = 1
    /\ trainer_lr = Num(lr_global)
    /\ grad = NoGrad /\ stepped = NoGrad /\ step_lr = Num(0)
    /\ TrainLocalsIdle

\* --------------------------------------------- evaluate, called on its own
NoResult == [raised |-> FALSE, value |-> Num(0)]

EvalIdle ==
    /\ ev_pc = "idle"
    /\ ev_data = <<>>
    /\ ev_b = 0
    /\ ev_st = EvalBegin
    /\ ev_visited = <<>>
    /\ ev_result = NoResult

\* the loss vectors the library can compute for one batch: any number of
\* elements up to MaxBatchElems, each a finite loss or inf
ElemLosses == {Num(1), Num(2), Inf}
LossVectors == UNION {[1..n -> ElemLosses] : n \in 1..MaxBatchElems}

\* evaluate(model, data_source, batch_size, ctx) is called; the statements
\* before its loop
EvalCall ==
    /\ ev_pc = "idle"
    /\ \E n \in 0..MaxEvalBatches : \E d \in [1..n -> LossVectors] : ev_data' = d
    /\ ev_b' = 0
    /\ ev_st' = EvalBegin
    /\ ev_visited' = <<>>
    /\ ev_result' = NoResult
    /\ ev_pc' = "loop"

\* one iteration of for i, (data, target) in enumerate(data_source)
EvalIterate ==
    /\ ev_pc = "loop"
    /\ ev_b < Len(ev_data)
    /\ ev_st' = EvalBody(ev_st, ev_data[ev_b + 1], ev_b + 1)
    /\ ev_visited' = Append(ev_visited, ev_b + 1)
    /\ ev_b' = ev_b + 1
    /\ UNCHANGED <<ev_pc, ev_data, ev_result>>

\* the loop is exhausted: return total_L / ntotal
EvalFinish ==
    /\ ev_pc = "loop"
    /\ ev_b >= Len(ev_data)
    /\ ev_result' = EvalReturn(ev_st)
    /\ ev_pc' = IF ev_result'.raised THEN "error" ELSE "done"
    /\ UNCHANGED <<ev_data, ev_b, ev_st, ev_visited>>

\* the next cell runs: evaluate's locals are gone
EvalNextCell ==
    /\ ev_pc \in {"done", "error"}
    /\ ev_pc' = "idle"
    /\ ev_data' = <<>>
    /\ ev_b' = 0
    /\ ev_st' = EvalBegin
    /\ ev_visited' = <<>>
    /\ ev_result' = NoResult

\* ----------------------------------------------------------------- get_batch
\* data_source as the sequence of its positions 0..n-1 (a token stands for
\* the position it is read from)
DataSource(n) == [k \in 1..n |-> k - 1]

\* a Python slice bound on a sequence of length n
SliceBound(x, n) ==
    IF x < 0 THEN (IF x + n < 0 THEN 0 ELSE x + n)
    ELSE (IF x > n THEN n ELSE x)

\* s[a:b]
PySlice(s, a, b) ==
    LET lo == SliceBound(a, Len(s))
        hi == SliceBound(b, Len(s))
    IN  IF lo >= hi THEN <<>> ELSE SubSeq(s, lo + 1, hi)

\* min(a, b)
Min(a, b) == IF a < b THEN a ELSE b

\* (mutant) the window clipped at the end of the data instead of one before
SeqLenToTheEnd(data_source, b, seq_len, bptt_now) ==
    Min(IF seq_len # 0 THEN seq_len ELSE bptt_now, Len(data_source) - b)

\* seq_len = min(seq_len if seq_len else bptt, len(data_source) - 1 - i);
\* seq_len = 0 stands for None (both are falsy), bptt_now is the global bptt
SeqLen(data_source, b, seq_len, bptt_now) ==
    Min(IF seq_len # 0 THEN seq_len ELSE bptt_now, Len(data_source) - 1 - b)

\* get_batch(data_source, i, seq_len=None)
get_batch(data_source, b, seq_len, bptt_now) ==
    LET sl == SeqLen(data_source, b, seq_len, bptt_now)
    IN  [data |-> PySlice(data_source, b, b + sl),
         target |-> PySlice(data_source, b + 1, b + 1 + sl)]

\* range(0, stop, step) for step >= 1
Range(stop, step) == {b \in 0..(stop - 1) : b % step = 0}

GbIdle ==
    /\ gb_args = [n |-> 0, i |-> 0, seq_len |-> 0, bptt |-> 1]
    /\ gb_ret = [data |-> <<>>, target |-> <<>>]

\* a cell calls get_batch(data_source, i) or get_batch(data_source, i, seq_len)
GetBatchCall ==
    /\ \E n \in 1..MaxLen, b \in 0..(MaxLen - 1), sl \in 0..MaxBptt :
          /\ b < n
          /\ gb_args' = [n |-> n, i |-> b, seq_len |-> sl, bptt |-> bptt]
          /\ gb_ret' = get_batch(DataSource(n), b, sl, bptt)
    /\ UNCHANGED bptt

\* the cell that sets bptt runs again with another value
SetBptt ==
    /\ \E v \in 1..MaxBptt : bptt' = v
    /\ UNCHANGED <<gb_args, gb_ret>>

\* ------------------------------------------------------------ evaluate_cache
NoCacheResult == [raised |-> FALSE, value |-> Num(0), divisor |-> 0]

CacheIdle ==
    /\ ec_pc = "idle"
    /\ ec_n = 0
    /\ ec_i = 0
    /\ ec_total_L = Num(0)
    /\ ec_scored = <<>>
    /\ ec_printed = <<>>
    /\ ec_result = NoCacheResult

\* total_L / d, d an integer
CacheReturn(t, d) ==
    IF d = 0 THEN [raised |-> TRUE, value |-> Num(0), divisor |-> 0]
    ELSE [raised |-> FALSE, value |-> DivInt(t, d), divisor |-> d]

\* evaluate_cache(model, data_source, batch_size, ctx) is called; the
\* statements before its loop
CacheCall ==
    /\ ec_pc = "idle"
    /\ \E n \in 0..MaxLen : ec_n' = n
    /\ ec_i' = 0
    /\ ec_total_L' = Num(0)
    /\ ec_scored' = <<>>
    /\ ec_printed' = <<>>
    /\ ec_result' = NoCacheResult
    /\ ec_pc' = "for"
    /\ UNCHANGED bptt

\* sum of the per-token losses -log(out) of one batch
RECURSIVE SumOuts(_)
SumOuts(outs) == IF outs = <<>> THEN 0 ELSE Head(outs) + SumOuts(Tail(outs))

\* an iteration of for i in range(0, len(data_source) - 1, bptt) that is not
\* the one with i == bptt: the line for i > 0, get_batch, the model, the sum
CacheIterate ==
    /\ ec_pc = "for"
    /\ ec_i < ec_n - 1
    /\ ec_i # bptt
    /\ ec_printed' = IF ec_i > 0 THEN Append(ec_printed, ec_i) ELSE ec_printed
    /\ LET b == get_batch(DataSource(ec_n), ec_i, 0, bptt)
       IN  /\ ec_scored' = ec_scored \o b.target
           /\ \E outs \in [1..Len(b.target) -> Losses] :
                 ec_total_L' = Add(ec_total_L, DivInt(Num(SumOuts(outs)), val_batch_size))
    /\ ec_i' = ec_i + bptt
    /\ UNCHANGED <<bptt, ec_pc, ec_n, ec_result>>

\* the iteration with i == bptt: the line is printed and total_L/i returned
CacheReturnAtBptt ==
    /\ ec_pc = "for"
    /\ ec_i < ec_n - 1
    /\ ec_i = bptt
    /\ ec_printed' = IF ec_i > 0 THEN Append(ec_printed, ec_i) ELSE ec_printed
    /\ ec_result' = CacheReturn(ec_total_L, ec_i)
    /\ ec_pc' = IF ec_result'.raised THEN "error" ELSE "done"
    /\ UNCHANGED <<bptt, ec_n, ec_i, ec_total_L, ec_scored>>

\* the divisor of the return after the loop: len(data_source)
CacheFinalDivisor(n) == n

\* the range is exhausted: return total_L / len(data_source)
CacheReturnAtEnd ==
    /\ ec_pc = "for"
    /\ ec_i >= ec_n - 1
    /\ ec_result' = CacheReturn(ec_total_L, CacheFinalDivisor(ec_n))
    /\ ec_pc' = IF ec_result'.raised THEN "error" ELSE "done"
    /\ UNCHANGED <<bptt, ec_n, ec_i, ec_total_L, ec_scored, ec_printed>>

\* the next cell runs: evaluate_cache's locals are gone
CacheNextCell ==
    /\ ec_pc \in {"done", "error"}
    /\ ec_pc' = "idle"
    /\ ec_n' = 0
    /\ ec_i' = 0
    /\ ec_total_L' = Num(0)
    /\ ec_scored' = <<>>
    /\ ec_printed' = <<>>
    /\ ec_result' = NoCacheResult
    /\ UNCHANGED bptt

\* ----------------------------------------------------------- specifications
vars == <<trainVars, evalVars, cacheVars, gbVars>>

\* the notebook's first call of train
Init == TrainInit /\ EvalIdle /\ CacheIdle /\ GbIdle /\ bptt = 1

TrainSteps ==
    \/ EpochBegin /\ UNCHANGED <<evalVars, cacheVars, gbVars>>
    \/ BatchDetach /\ UNCHANGED <<evalVars, cacheVars, gbVars>>
    \/ BatchForward /\ UNCHANGED <<evalVars, cacheVars, gbVars>>
    \/ BatchBackward /\ UNCHANGED <<evalVars, cacheVars, gbVars>>
    \/ BatchClip /\ UNCHANGED <<evalVars, cacheVars, gbVars>>
    \/ BatchStep /\ UNCHANGED <<evalVars, cacheVars, gbVars>>
    \/ BatchLog /\ UNCHANGED <<evalVars, cacheVars, gbVars>>
    \/ BatchesDone /\ UNCHANGED <<evalVars, cacheVars, gbVars>>
    \/ EpochValidate /\ UNCHANGED <<evalVars, cacheVars, gbVars>>
    \/ EpochBookkeeping /\ UNCHANGED <<evalVars, cacheVars, gbVars>>
    \/ TrainReturn /\ UNCHANGED <<evalVars, cacheVars, gbVars>>

Next ==
    \/ TrainCall(1) /\ UNCHANGED <<evalVars, cacheVars, gbVars>>
    \/ TrainSteps

Spec == Init /\ [][Next]_vars

\* any sequence of calls of train on the one global trainer
NextCalls ==
    \/ TrainCall(MaxCalls) /\ UNCHANGED <<evalVars, cacheVars, gbVars>>
    \/ TrainSteps

SpecCalls == Init /\ [][NextCalls]_vars

\* evaluate called from a cell, on any data source
InitEval == TrainIdle /\ EvalIdle /\ CacheIdle /\ GbIdle /\ bptt = 1

NextEval ==
    \/ EvalCall /\ UNCHANGED <<trainVars, cacheVars, gbVars>>
    \/ EvalIterate /\ UNCHANGED <<trainVars, cacheVars, gbVars>>
    \/ EvalFinish /\ UNCHANGED <<trainVars, cacheVars, gbVars>>
    \/ EvalNextCell /\ UNCHANGED <<trainVars, cacheVars, gbVars>>

SpecEval == InitEval /\ [][NextEval]_vars

\* evaluate_cache called from a cell, for any bptt and any data length
InitCache == TrainIdle /\ EvalIdle /\ CacheIdle /\ GbIdle /\ bptt \in 1..MaxBptt

NextCache ==
    \/ CacheCall /\ UNCHANGED <<trainVars, evalVars, gbVars>>
    \/ CacheIterate /\ UNCHANGED <<trainVars, evalVars, gbVars>>
    \/ CacheReturnAtBptt /\ UNCHANGED <<trainVars, evalVars, gbVars>>
    \/ CacheReturnAtEnd /\ UNCHANGED <<trainVars, evalVars, gbVars>>
    \/ CacheNextCell /\ UNCHANGED <<trainVars, evalVars, gbVars>>

SpecCache == InitCache /\ [][NextCache]_vars

\* get_batch called from a cell, with any arguments
InitGetBatch == TrainIdle /\ EvalIdle /\ CacheIdle /\ GbIdle /\ bptt \in 1..MaxBptt

NextGetBatch ==
    \/ GetBatchCall /\ UNCHANGED <<trainVars, evalVars, ec_pc, ec_n, ec_i,
                                   ec_total_L, ec_scored, ec_printed, ec_result>>
    \/ SetBptt /\ UNCHANGED <<trainVars, evalVars, ec_pc, ec_n, ec_i,
                              ec_total_L, ec_scored, ec_printed, ec_result>>

SpecGetBatch == InitGetBatch /\ [][NextGetBatch]_vars

\* ======================================================== claims about train
\* the forward passes of the current batch, one per device
CurrentBatch == {<<epoch, i, j>> : j \in 1..ndev}

\* C1: truncated BPTT. The hidden states fed to the recorded forward pass are
\* detached, so the graph L.backward() walks holds the forward pass of the
\* current batch on each device and of no earlier batch.
C1_TruncatedBPTT ==
    /\ pc = "record" => Graph(hiddens) = {}
    /\ pc = "backward" => Lgraph = CurrentBatch
    /\ pc \in {"clip", "step", "log"} => grad.of = CurrentBatch

C1_Witness ==
    /\ pc = "clip" /\ epoch = 1 /\ i = 2 /\ ndev = 2
    /\ grad.of = {<<1, 2, 1>>, <<1, 2, 2>>}

BatchOrder == <<"detach", "forward", "backward", "clip_global_norm", "step">>

\* C2: every batch goes through detach, forward, backward, clip, step once
\* each and in this order; the step consumes the clipped gradient of the
\* batch's own backward pass; one step per batch of every epoch.
C2_BatchStepOrder ==
    /\ pc \in {"record", "backward", "clip", "step", "log"}
          => ops = SubSeq(BatchOrder, 1, Len(ops))
    /\ pc = "step" => grad = [of |-> CurrentBatch, clipped |-> TRUE]
    /\ pc = "log" => /\ ops = BatchOrder
                     /\ stepped = [of |-> CurrentBatch, clipped |-> TRUE]
                     /\ grad = stepped
    /\ (pc = "batch" /\ i > 0) => ops = BatchOrder
    /\ pc = "batch" => nsteps = epoch * ntrain + i

C2_Witness ==
    /\ pc = "log" /\ epoch = 1 /\ i = 1
    /\ ops = BatchOrder /\ stepped.clipped /\ nsteps = ntrain + 2

\* batch indices of the progress lines printed so far in this epoch
PrintedBatches == {printed[k].batch : k \in 1..Len(printed)}

\* batches whose loss went into some printed cur_L
ReportedBatches == UNION {printed[k].window : k \in 1..Len(printed)}

\* C5: a progress line is printed for batch i iff i > 0 and i is a multiple of
\* log_interval, so an epoch of N >= 1 batches prints (N-1) div log_interval
\* lines (none for N <= log_interval), and the losses of the batches after the
\* last printed index are never reported.
C5_ProgressLines ==
    /\ pc \in {"batch", "validate", "compare"} =>
          /\ PrintedBatches = {b \in 0..(i - 1) : b > 0 /\ b % log_interval = 0}
          /\ Cardinality(PrintedBatches) = Len(printed)
    /\ pc \in {"validate", "compare"} =>
          /\ i = ntrain
          /\ ntrain >= 1 => Len(printed) = (ntrain - 1) \div log_interval
          /\ ntrain <= log_interval => Len(printed) = 0
          /\ \A b \in 0..(ntrain - 1) :
                (\A k \in 1..Len(printed) : printed[k].batch < b)
                    => b \notin ReportedBatches /\ b \in window

C5_Witness ==
    /\ pc = "validate" /\ ntrain = 4 /\ log_interval = 2
    /\ Len(printed) = 1 /\ printed[1].batch = 2 /\ window = {3}

RECURSIVE MinVal(_)
MinVal(s) ==
    IF s = <<>> THEN Inf
    ELSE LET m == MinVal(Tail(s))
         IN  IF Less(Head(s), m) THEN Head(s) ELSE m

\* C6: after the bookkeeping of every epoch, best_val is the minimum of the
\* validation losses of the epochs completed so far (+infinity before any).
C6_BestValIsMinimum ==
    pc = "epoch" => /\ Len(vals) = epoch
                    /\ Same(best_val, MinVal(vals))
                    /\ IsInf(best_val) = IsInf(MinVal(vals))

C6_Witness ==
    /\ pc = "epoch" /\ epoch = 2
    /\ Less(vals[1], vals[2]) /\ Same(best_val, vals[1]) /\ ~IsInf(vals[2])

\* did epoch number k (1-based in vals) improve on the best loss before it
ImprovedAt(k) == Less(vals[k], MinVal(SubSeq(vals, 1, k - 1)))

\* what the end of an epoch leaves: the calls it made, the checkpoint or not
C7_EpochEndState ==
    (pc = "epoch" /\ epoch >= 1) =>
        /\ IF ImprovedAt(epoch)
           THEN /\ epoch_ops = <<"evaluate_val", "evaluate_test", "save_params">>
                /\ (epoch - 1) \in saved
           ELSE /\ epoch_ops = <<"evaluate_val", "set_learning_rate">>
                /\ (epoch - 1) \notin saved
                /\ trainer_lr = lr
        /\ ~IsInf(vals[1]) => 0 \in saved

\* what the bookkeeping step changes, by the comparison it makes
C7_EpochEndStep ==
    (pc = "compare" /\ pc' = "epoch") =>
        IF Less(val_L, best_val)
        THEN lr' = lr /\ trainer_lr' = trainer_lr /\ saved' = saved \cup {epoch}
        ELSE lr' = MulQuarter(lr) /\ trainer_lr' = lr' /\ saved' = saved

NonImproving == Cardinality({k \in 1..Len(vals) : ~ImprovedAt(k)})

\* the learning rate after the epochs completed so far
C8_LrState ==
    pc = "epoch" =>
        /\ lr = [num |-> lr_arg.num, den |-> lr_arg.den * 4 ^ NonImproving]
        /\ (epoch >= 1 /\ ~ImprovedAt(epoch)) => trainer_lr = lr

\* no step of a call raises the local learning rate
C8_LrStep == (pc # "idle" /\ pc' # "idle") => ~Less(lr, lr')

\* C8: after k epochs the local learning rate is lr * 0.25^d, d the number of
\* non-improving epochs among them; it never increases during the call; after
\* a non-improving epoch the trainer's learning rate equals it.
C8_LearningRate == [](C8_LrState) /\ [][C8_LrStep]_vars

C8_Witness ==
    /\ pc = "epoch" /\ epoch = 2 /\ NonImproving = 2
    /\ lr = [num |-> lr_arg.num, den |-> 16] /\ trainer_lr = lr

\* ===================================================== claims about evaluate
RECURSIVE Flatten(_)
Flatten(batches) ==
    IF batches = <<>> THEN <<>> ELSE Head(batches) \o Flatten(Tail(batches))

RECURSIVE FiniteSum(_)
FiniteSum(flat) == IF flat = <<>> THEN 0 ELSE Head(flat).num + FiniteSum(Tail(flat))

\* C3: evaluate returns the mean loss per element of the whole data source,
\* the sum of every element loss of every batch over the number of elements,
\* having visited each batch once and in order, however the elements are
\* spread over the batches.
C3_EvaluateMean ==
    ev_pc = "done" =>
        LET flat == Flatten(ev_data)
        IN  /\ ev_visited = [k \in 1..Len(ev_data) |-> k]
            /\ Len(flat) > 0
            /\ IF \E k \in 1..Len(flat) : IsInf(flat[k])
               THEN IsInf(ev_result.value)
               ELSE /\ ~IsInf(ev_result.value)
                    /\ ev_result.value.num * Len(flat)
                          = FiniteSum(flat) * ev_result.value.den

C3_Witness ==
    /\ ev_pc = "done"
    /\ ev_data = << <<Num(1)>>, <<Num(2), Num(2)>> >>
    /\ ev_result.value = [num |-> 5, den |-> 3]

\* ==================================================== claims about get_batch
\* the positions a window holds
Positions(w) == {w[k] : k \in 1..Len(w)}

\* C9: for every i of range(0, n - 1, bptt), get_batch(data_source, i) returns
\* data and target of the same length s = min(bptt, n - 1 - i) >= 1, data the
\* positions i..i+s-1 and target the positions i+1..i+s, with no slice bound
\* beyond n; the data windows of consecutive i are disjoint and contiguous
\* and cover exactly 0..n-2.
C9_GetBatchWindows ==
    LET n == gb_args.n
        ds == DataSource(n)
        bp == gb_args.bptt
        R == Range(n - 1, bp)
        win(b) == get_batch(ds, b, 0, bp)
    IN  n >= 1 =>
        /\ \A b \in R :
              LET s == SeqLen(ds, b, 0, bp)
              IN  /\ s = Min(bp, n - 1 - b)
                  /\ s >= 1
                  /\ b + 1 + s <= n
                  /\ win(b).data = [k \in 1..s |-> b + k - 1]
                  /\ win(b).target = [k \in 1..s |-> b + k]
        /\ \A b \in R : \A c \in R :
              b # c => Positions(win(b).data) \cap Positions(win(c).data) = {}
        /\ \A b \in R :
              (b + bp) \in R =>
                  win(b + bp).data[1] = win(b).data[Len(win(b).data)] + 1
        /\ UNION {Positions(win(b).data) : b \in R} = 0..(n - 2)
        /\ (gb_args.seq_len = 0 /\ gb_args.i \in R) => gb_ret = win(gb_args.i)

C9_Witness ==
    /\ gb_args = [n |-> 6, i |-> 4, seq_len |-> 0, bptt |-> 2]
    /\ gb_ret = [data |-> <<4>>, target |-> <<5>>]

\* =============================================== claims about evaluate_cache
\* C4: evaluate_cache scores the whole data source: for n >= 2 every target
\* position 1..n-1 has been passed to the model exactly once, in increasing
\* order, when it returns.
C4_WholeSourceScored ==
    (ec_pc = "done" /\ ec_n >= 2) => ec_scored = [k \in 1..(ec_n - 1) |-> k]

\* C10: on every return path of evaluate_cache the divisor is the number of
\* target tokens whose loss was added to total_L.
C10_DivisorIsTokenCount ==
    (ec_pc = "done" /\ ec_n >= 2) => ec_result.divisor = Len(ec_scored)

\* ============================================ claims about train, continued
\* C11: at every log point total_L holds the summed loss of exactly
\* log_interval batches (the first log point of an epoch included), so that
\* cur_L = total_L / log_interval is the mean loss per batch of that window.
C11_WindowIsLogInterval ==
    \A k \in 1..Len(printed) : Cardinality(printed[k].window) = log_interval

\* a call of train is under way
InCall == pc \notin {"idle", "error"}

\* how far a call of train has come: epochs, then batches, then statements
PcRank ==
    CASE pc = "epoch" -> 0
      [] pc = "batch" -> 1
      [] pc \in {"record", "validate"} -> 2
      [] pc \in {"backward", "compare"} -> 3
      [] pc = "clip" -> 4
      [] pc = "step" -> 5
      [] pc = "log" -> 6
      [] OTHER -> 0

Rank == (epoch * (ntrain + 1) + (IF pc = "epoch" THEN 0 ELSE i)) * 8 + PcRank

\* the counts of C12 wherever a call of train stands: the steps made, the
\* validation losses returned, and where evaluate on val_data is called
C12_Counts ==
    /\ InCall => epoch <= epochs /\ Rank <= epochs * (ntrain + 1) * 8
    /\ pc = "epoch" => nsteps = epoch * ntrain /\ Len(vals) = epoch
    /\ pc \in {"batch", "record", "backward", "clip", "step"}
          => i <= ntrain /\ nsteps = epoch * ntrain + i /\ Len(vals) = epoch
    /\ pc = "log" => nsteps = epoch * ntrain + i + 1 /\ Len(vals) = epoch
    /\ pc = "validate" => nsteps = (epoch + 1) * ntrain /\ Len(vals) = epoch
    /\ pc = "compare" => nsteps = (epoch + 1) * ntrain /\ Len(vals) = epoch + 1
    /\ InCall => ENABLED Next

\* every step inside a call moves it forward
C12_Progress == (InCall /\ InCall') => Rank' > Rank

\* C12 as stated: train never stops short of its epochs, whatever the
\* (finite) data sources are
C12_AlwaysCompletes == C12_Counts /\ pc # "error"

\* C12: with finite data sources of which val_data and test_data yield at
\* least one batch, train terminates after exactly `epochs` epochs, each epoch
\* stepping once per batch of train_data in order (epochs * len(train_data)
\* steps in all) and calling evaluate on val_data once, after the epoch's last
\* step and before the next epoch's first batch.
C12_Termination ==
    /\ [](C12_Counts /\ (pc = "error" => (nval = 0 \/ ntest = 0)))
    /\ [][C12_Progress]_vars

C12_Witness ==
    /\ pc = "epoch" /\ epoch = epochs /\ epochs = 2 /\ ntrain = 3
    /\ nval = 2 /\ ntest = 1 /\ nsteps = 6 /\ Len(vals) = 2

\* the state the code must feed to the model for batch b of epoch e on device
\* j: zeros for the first batch, else what the model returned for batch b - 1
\* on the same device, cut from its graph
FedState(who, e, b, first, j) ==
    IF b = first THEN begin_state(who, e, j)
    ELSE List([k \in 1..StateTensors |-> Tensor(<<who, "out", e, b - 1, j>>, {})])

\* evaluate's hidden state when batch number b of a source with loss vectors
\* `batches` is about to be fed
EvalFed(batches, b) == EvalLoop(EvalBegin, SubSeq(batches, 1, b - 1), 1).hidden

\* C13: in train each device's hidden state is zero at the start of every
\* epoch, the state fed for batch i + 1 on device j is the detached state
\* returned for batch i on device j, and there are len(context) states; in
\* evaluate the state starts from zero on each call and is carried the same
\* way; no state of evaluate is fed to training and none of training to
\* evaluate.
C13_HiddenContinuity ==
    /\ pc \in {"batch", "record", "backward", "clip", "step", "log", "validate",
               "compare"}
          => Len(hiddens.items) = ndev
    /\ pc = "record"
          => hiddens = List([j \in 1..ndev |-> FedState("train", epoch, i, 0, j)])
    /\ pc = "validate"
          => \A out \in EvalOutcomes(nval) : \A b \in 1..nval :
                EvalFed(out, b) = FedState("evaluate", 0, b, 1, 1)
    /\ pc = "compare"
          => \A out \in EvalOutcomes(ntest) : \A b \in 1..ntest :
                EvalFed(out, b) = FedState("evaluate", 0, b, 1, 1)

C13_Witness ==
    /\ pc = "record" /\ epoch = 1 /\ i = 2 /\ ndev = 2 /\ nval = 2
    /\ hiddens.items[2].items[1].src = <<"train", "out", 1, 1, 2>>

\* C14: in every call of train on the shared trainer, the learning rate the
\* trainer steps with during the call's first epoch is the call's lr argument.
C14_FirstEpochLr == (pc = "log" /\ epoch = 0) => Same(step_lr, lr_arg)

\* a call of train whose val_data yields no batches, up to its abort
C15_EmptyValState ==
    /\ evaluate(<<>>).raised
    /\ (nval = 0 /\ pc # "idle")
          => /\ epoch = 0
             /\ pc # "compare"
             /\ vals = <<>>
             /\ saved = {}
             /\ Same(lr, lr_arg)
             /\ trainer_lr = Num(lr_global)
    /\ (nval = 0 /\ pc = "error")
          => /\ nsteps = ntrain
             /\ epoch_ops = <<"evaluate_val">>

\* with no validation batches the call of evaluate ending the first epoch
\* raises, whatever else could happen there
C15_EmptyValStep == (pc = "validate" /\ nval = 0) => pc' = "error"

\* C15: evaluate on a data source that yields no batches fails with a
\* division by zero at total_L / ntotal; inside train, an empty val_data
\* aborts the run at the end of the first epoch, after that epoch's steps and
\* before any checkpoint is saved or the learning rate is changed.
C15_EmptySourceAborts == []C15_EmptyValState /\ [][C15_EmptyValStep]_vars

C15_Witness ==
    /\ pc = "error" /\ nval = 0 /\ epochs = 2 /\ ntrain = 2 /\ nsteps = 2
    /\ epoch = 0 /\ saved = {}

====
